---- MODULE Spec2Model ----
(***************************************************************************)
(* Model of apollo_extractor.py: the ApolloClient lookup workflow          *)
(* (match -> conditional enrich -> extraction) and the batch processor     *)
(* process_csv.                                                            *)
(*                                                                         *)
(* Python values are modelled as follows.                                  *)
(*   - a str-or-None scalar is a TLA+ string, None being the string None   *)
(*     below (vendor strings never take that value);                       *)
(*   - a dict is a function whose domain is the set of keys present        *)
(*     (the empty dict is <<>>), so absent and null keys are distinct;     *)
(*   - a value that may be None, a list or a dict (emails, phone_numbers,  *)
(*     organization, the person payload) is tagged: JNull, JList, JDict.   *)
(***************************************************************************)
EXTENDS Integers, Sequences, FiniteSets

VARIABLES
    exists,          \* os.path.exists(input_csv)
    fieldnames,      \* reader.fieldnames of the input file
    rows,            \* row.get(linkedin_column) of each data row, in file order
    fmt,             \* the output_format argument
    outfile,         \* the file at output_path
    console,         \* what has been printed
    pc,              \* position in process_csv / lookup_person
    i,               \* number of rows appended to results
    results,         \* process_csv's results list
    credits,         \* self.credits
    requests,        \* the POST requests sent by _post, in order
    url,             \* lookup_person's linkedin_url argument
    match,           \* lookup_person's local match
    person,          \* lookup_person's local person
    extracted,       \* lookup_person's local extracted
    enrich,          \* lookup_person's local enrich
    ret,             \* the value the current call returned
    calls,           \* history: argument and return value of each lookup_person call
    credits_at_call, \* history: self.credits when the current lookup_person call began
    exc              \* the exception that propagated out of process_csv, if any

vars == <<exists, fieldnames, rows, fmt, outfile, console, pc, i, results, credits,
          requests, url, match, person, extracted, enrich, ret, calls,
          credits_at_call, exc>>

-----------------------------------------------------------------------------
(* Python values *)

None == "None"

\* bool(v) of a str-or-None value
Truthy(v) == v # None /\ v # ""

JNull == [t |-> "null"]
JList(s) == [t |-> "list", v |-> s]
JDict(d) == [t |-> "dict", v |-> d]
Unset == [t |-> "unset"]

\* bool(j) of a tagged value
TruthyJ(j) ==
    CASE j.t = "list" -> Len(j.v) > 0
      [] j.t = "dict" -> DOMAIN j.v # {}
      [] OTHER -> FALSE

\* d.get(k)
Get(d, k) == IF k \in DOMAIN d THEN d[k] ELSE None

\* d.get(k, default)
GetDefault(d, k, default) == IF k \in DOMAIN d THEN d[k] ELSE default

\* the dict d with d[k] = v
With(d, k, v) == [x \in DOMAIN d \cup {k} |-> IF x = k THEN v ELSE d[x]]

\* s.strip() on the strings of InputUrls
strip(s) ==
    CASE s = " " -> ""
      [] s = " u1 " -> "u1"
      [] OTHER -> s

-----------------------------------------------------------------------------
(* Configuration *)

OUTPUT_FIELDNAMES ==
    << "input_linkedin_url", "first_name", "last_name", "job_title", "company_name",
       "company_website", "industry", "verified_email", "verified_mobile_phone",
       "linkedin_url", "apollo_person_id", "lookup_used", "apollo_error" >>

FieldSet == {OUTPUT_FIELDNAMES[k] : k \in 1..Len(OUTPUT_FIELDNAMES)}

CreditUsage ==
    [match_credits |-> 0, enrich_credits |-> 0, email_credits |-> 0, mobile_credits |-> 0]

ProgressEvery == 10

linkedin_column == "linkedin_url"

-----------------------------------------------------------------------------
(* Bounds and input domains *)

MaxRows == 2
MaxEmails == 3
MaxPhones == 2

\* URL cells of the input table: a missing cell, an empty cell, a blank cell,
\* a URL with surrounding whitespace
InputUrls == {None, "", " ", " u1 "}

RECURSIVE SeqsUpTo(_, _)
SeqsUpTo(S, n) ==
    IF n = 0 THEN {<<>>}
    ELSE LET shorter == SeqsUpTo(S, n - 1)
         IN shorter \cup {Append(s, x) : s \in {t \in shorter : Len(t) = n - 1}, x \in S}

InputTables == SeqsUpTo(InputUrls, MaxRows)

Formats == {"csv", "json", "xml"}

NoFile == [t |-> "absent"]
OldFile == [t |-> "file", fmt |-> "old", content |-> <<>>]

HeaderNone == JNull
HeaderWithColumn == JList(<<"name", "linkedin_url">>)
HeaderWithoutColumn == JList(<<"name">>)

-----------------------------------------------------------------------------
(* Vendor data: the JSON the two endpoints can answer with *)

OrgAcme == JDict([name |-> "Acme", website_url |-> "acme.io", industry |-> "tech"])

EmailsA ==
    JList(<< [email |-> "e1", status |-> "unverified", type |-> "work"],
             [email |-> "e2", status |-> "verified", type |-> "email"] >>)

PhonesMobile ==
    JList(<< [number |-> "n1", sanitized_number |-> "s1", label |-> "mobile",
              status |-> "verified"] >>)

\* a verified mobile entry that carries no usable number
PhonesEmptyNumber ==
    JList(<< [number |-> "", label |-> "mobile", status |-> "verified"] >>)

PersonA ==
    [linkedin_url |-> "v1", first_name |-> "Ann", last_name |-> "Lee", title |-> "CEO",
     id |-> "p1", organization |-> OrgAcme, emails |-> EmailsA]

\* a sparse record: no linkedin_url, organization or emails, and a verified
\* mobile entry without a usable number
PersonB == [first_name |-> "Bob", id |-> "p2", phone_numbers |-> PhonesEmptyNumber]

Persons ==
    { PersonA,
      PersonB,
      With(PersonA, "phone_numbers", PhonesMobile),
      With(PersonA, "organization", JNull),
      With(PersonA, "emails", JNull),
      With(PersonA, "phone_numbers", JNull) }

\* _post's result for a failed request
ErrorResults == {[error |-> "timeout", status_code |-> 500]}

\* _post's result for a decoded body: no person key, a null person, an empty
\* person, or a person record
Bodies ==
    {<<>>, [person |-> JNull], [person |-> JDict(<<>>)]}
        \cup {[person |-> JDict(p)] : p \in Persons}

PostResults == ErrorResults \cup Bodies

-----------------------------------------------------------------------------
(* Extraction helpers.  Each returns [raised, val, credits]: the exception  *)
(* raised (None when the call returns), the value returned, and             *)
(* self.credits after the call.                                             *)

Outcome(raised, val, cr) == [raised |-> raised, val |-> val, credits |-> cr]

\* mutant of EmailLoop: the type of the candidate is not looked at
RECURSIVE EmailLoopIgnoresType(_, _)
EmailLoopIgnoresType(emails, k) ==
    IF k > Len(emails) THEN 0
    ELSE IF Get(emails[k], "status") = "verified"
         THEN k
         ELSE EmailLoopIgnoresType(emails, k + 1)

\* the index of the first e in emails[k..] with status "verified" and type in
\* ("work", "email"); 0 when the loop runs off the end
RECURSIVE EmailLoop(_, _)
EmailLoop(emails, k) ==
    IF k > Len(emails) THEN 0
    ELSE IF /\ Get(emails[k], "status") = "verified"
            /\ Get(emails[k], "type") \in {"work", "email"}
         THEN k
         ELSE EmailLoop(emails, k + 1)

\* mutant of extract_verified_email: a selection is not counted
ExtractEmailNotCounted(p, cr) ==
    LET emails == GetDefault(p, "emails", JList(<<>>))
    IN IF emails.t # "list"
       THEN Outcome("TypeError", None, cr)
       ELSE LET k == EmailLoop(emails.v, 1)
            IN IF k = 0
               THEN Outcome(None, None, cr)
               ELSE Outcome(None, Get(emails.v[k], "email"), cr)

extract_verified_email(p, cr) ==
    LET emails == GetDefault(p, "emails", JList(<<>>))
    IN IF emails.t # "list"
       THEN Outcome("TypeError", None, cr)
       ELSE LET k == EmailLoop(emails.v, 1)
            IN IF k = 0
               THEN Outcome(None, None, cr)
               ELSE Outcome(None, Get(emails.v[k], "email"),
                            [cr EXCEPT !.email_credits = @ + 1])

\* the index of the first p in phones[k..] with label "mobile" and status
\* "verified"; 0 when the loop runs off the end
RECURSIVE MobileLoop(_, _)
MobileLoop(phones, k) ==
    IF k > Len(phones) THEN 0
    ELSE IF /\ Get(phones[k], "label") = "mobile"
            /\ Get(phones[k], "status") = "verified"
         THEN k
         ELSE MobileLoop(phones, k + 1)

\* mutant of SanitizedOrNumber: the raw number is preferred
NumberOrSanitized(p) ==
    IF Truthy(Get(p, "number"))
    THEN Get(p, "number")
    ELSE Get(p, "sanitized_number")

\* p.get("sanitized_number") or p.get("number")
SanitizedOrNumber(p) ==
    IF Truthy(Get(p, "sanitized_number"))
    THEN Get(p, "sanitized_number")
    ELSE Get(p, "number")

extract_verified_mobile(p, cr) ==
    LET phones == GetDefault(p, "phone_numbers", JList(<<>>))
    IN IF phones.t # "list"
       THEN Outcome("TypeError", None, cr)
       ELSE LET k == MobileLoop(phones.v, 1)
            IN IF k = 0
               THEN Outcome(None, None, cr)
               ELSE Outcome(None, SanitizedOrNumber(phones.v[k]),
                            [cr EXCEPT !.mobile_credits = @ + 1])

\* the dict literal of _extract_all, its entries evaluated in order
_extract_all(p, cr) ==
    LET org == GetDefault(p, "organization", JDict(<<>>))
    IN IF org.t # "dict"
       THEN Outcome("AttributeError", None, cr)
       ELSE LET em == extract_verified_email(p, cr)
            IN IF em.raised # None
               THEN em
               ELSE LET mo == extract_verified_mobile(p, em.credits)
                    IN IF mo.raised # None
                       THEN mo
                       ELSE Outcome(None,
                              [input_linkedin_url |-> Get(p, "linkedin_url"),
                               first_name |-> Get(p, "first_name"),
                               last_name |-> Get(p, "last_name"),
                               job_title |-> Get(p, "title"),
                               company_name |-> Get(org.v, "name"),
                               company_website |-> Get(org.v, "website_url"),
                               industry |-> Get(org.v, "industry"),
                               verified_email |-> em.val,
                               verified_mobile_phone |-> mo.val,
                               linkedin_url |-> Get(p, "linkedin_url"),
                               apollo_person_id |-> Get(p, "id"),
                               lookup_used |-> None,
                               apollo_error |-> None],
                              mo.credits)

\* mutant of _empty_result: the input URL is not carried into the record
EmptyResultDropsUrl(linkedin_url, error) ==
    [f \in FieldSet |-> IF f = "apollo_error" THEN error ELSE None]

_empty_result(linkedin_url, error) ==
    [f \in FieldSet |->
        IF f = "input_linkedin_url" THEN linkedin_url
        ELSE IF f = "apollo_error" THEN error
        ELSE None]

\* mutant of CountEnrich: the enrich call is not counted
EnrichNotCounted(cr) == cr

\* line 86: self.credits.match_credits += 1
CountMatch(cr) == [cr EXCEPT !.match_credits = @ + 1]

\* line 103: self.credits.enrich_credits += 1
CountEnrich(cr) == [cr EXCEPT !.enrich_credits = @ + 1]

\* the payload match_by_linkedin posts
MatchPayload(linkedin_url) == [person |-> [linkedin_url |-> strip(linkedin_url)]]

\* the payload enrich_person posts; building it raises when organization is null
EnrichPayload(p) ==
    LET org == GetDefault(p, "organization", JDict(<<>>))
    IN IF org.t # "dict"
       THEN Outcome("AttributeError", None, None)
       ELSE Outcome(None,
                    [linkedin_url |-> Get(p, "linkedin_url"),
                     first_name |-> Get(p, "first_name"),
                     last_name |-> Get(p, "last_name"),
                     organization_name |-> Get(org.v, "name")],
                    None)

-----------------------------------------------------------------------------
(* lookup_person *)

\* mutant of EnrichFailed: lookup_used is left as the match step set it
EnrichFailedKeepsLookupUsed(rec, error) == [rec EXCEPT !["apollo_error"] = error]

\* mutant of EnrichFailed: the match-derived data is discarded
EnrichFailedDropsMatch(rec, error) ==
    [_empty_result(rec["input_linkedin_url"], error) EXCEPT !["lookup_used"] = "enrich"]

\* lines 159-161 and 171-173: the match-derived record, marked as an enrich failure
EnrichFailed(rec, error) ==
    [rec EXCEPT !["lookup_used"] = "enrich", !["apollo_error"] = error]

\* mutant of EnrichSucceeded: the vendor's URL is left in input_linkedin_url
EnrichSucceededKeepsVendorUrl(enriched, linkedin_url) ==
    [enriched EXCEPT !["lookup_used"] = "enrich"]

\* lines 165-168: the record extracted from the enrich payload
EnrichSucceeded(enriched, linkedin_url) ==
    [enriched EXCEPT !["lookup_used"] = "enrich", !["input_linkedin_url"] = linkedin_url]

\* mutant of EmptyInput: the argument is passed through
EmptyInputKeepsUrl(linkedin_url) == _empty_result(linkedin_url, "Empty LinkedIn URL.")

\* line 131: the record for an empty input
EmptyInput(linkedin_url) == _empty_result(None, "Empty LinkedIn URL.")

\* mutant of HasVerifiedMobile: the match result never short-circuits
NeverShortCircuits(rec) == FALSE

\* line 151: if extracted["verified_mobile_phone"]
HasVerifiedMobile(rec) == Truthy(rec["verified_mobile_phone"])

\* lookup_person returns r
Return(r) ==
    /\ ret' = r
    /\ calls' = Append(calls, [url |-> url, ret |-> r])
    /\ pc' = "append"
    /\ exc' = exc

\* an exception of type e leaves lookup_person and, uncaught, process_csv
Raise(e, where) ==
    /\ exc' = [type |-> e, raised_in |-> where]
    /\ pc' = "crashed"
    /\ UNCHANGED <<ret, calls>>

\* mutant of LookupPerson: the match request is sent a second time
LookupPersonRetries ==
    /\ pc = "lookup_person"
    /\ credits_at_call' = credits
    /\ IF ~Truthy(url)
       THEN /\ Return(EmptyInput(url))
            /\ UNCHANGED <<credits, requests>>
       ELSE /\ credits' = CountMatch(CountMatch(credits))
            /\ requests' = requests \o
                    << [endpoint |-> "people/match", payload |-> MatchPayload(url),
                        row |-> i + 1],
                       [endpoint |-> "people/match", payload |-> MatchPayload(url),
                        row |-> i + 1] >>
            /\ pc' = "match_post"
            /\ UNCHANGED <<ret, calls, exc>>
    /\ UNCHANGED <<exists, fieldnames, rows, fmt, outfile, console, i, results, url,
                   match, person, extracted, enrich>>

\* lines 130-134: the empty-input return, or match_by_linkedin sending its request
LookupPerson ==
    /\ pc = "lookup_person"
    /\ credits_at_call' = credits
    /\ IF ~Truthy(url)
       THEN /\ Return(EmptyInput(url))
            /\ UNCHANGED <<credits, requests>>
       ELSE /\ credits' = CountMatch(credits)
            /\ requests' = Append(requests,
                    [endpoint |-> "people/match", payload |-> MatchPayload(url),
                     row |-> i + 1])
            /\ pc' = "match_post"
            /\ UNCHANGED <<ret, calls, exc>>
    /\ UNCHANGED <<exists, fieldnames, rows, fmt, outfile, console, i, results, url,
                   match, person, extracted, enrich>>

\* lines 134-156: _post returns resp to match_by_linkedin; lookup_person handles it
\* up to its return or up to the request enrich_person sends
MatchReturns(resp) ==
    /\ pc = "match_post"
    /\ match' = JDict(resp)
    /\ enrich' = enrich
    /\ IF "error" \in DOMAIN resp
       THEN /\ Return(_empty_result(url, "MATCH API error: " \o resp["error"]))
            /\ UNCHANGED <<person, extracted, credits, requests>>
       ELSE LET got == GetDefault(resp, "person", JNull)
            IN /\ person' = got
               /\ IF ~TruthyJ(got)
                  THEN /\ Return(_empty_result(url, "No match found."))
                       /\ UNCHANGED <<extracted, credits, requests>>
                  ELSE LET ex == _extract_all(got.v, credits)
                       IN IF ex.raised # None
                          THEN /\ Raise(ex.raised, "_extract_all")
                               /\ credits' = ex.credits
                               /\ UNCHANGED <<extracted, requests>>
                          ELSE LET rec == [ex.val EXCEPT !["lookup_used"] = "match"]
                               IN /\ extracted' = rec
                                  /\ IF HasVerifiedMobile(rec)
                                     THEN /\ Return(rec)
                                          /\ credits' = ex.credits
                                          /\ requests' = requests
                                     ELSE LET pl == EnrichPayload(got.v)
                                          IN IF pl.raised # None
                                             THEN /\ Raise(pl.raised, "enrich_person")
                                                  /\ credits' = ex.credits
                                                  /\ requests' = requests
                                             ELSE /\ credits' = CountEnrich(ex.credits)
                                                  /\ requests' = Append(requests,
                                                       [endpoint |-> "people/enrich",
                                                        payload |-> pl.val,
                                                        row |-> i + 1])
                                                  /\ pc' = "enrich_post"
                                                  /\ UNCHANGED <<ret, calls, exc>>
    /\ UNCHANGED <<exists, fieldnames, rows, fmt, outfile, console, i, results, url,
                   credits_at_call>>

\* lines 155-173: _post returns resp to enrich_person; lookup_person handles it
EnrichReturns(resp) ==
    /\ pc = "enrich_post"
    /\ enrich' = JDict(resp)
    /\ IF "error" \in DOMAIN resp
       THEN /\ extracted' = EnrichFailed(extracted, "Enrich error: " \o resp["error"])
            /\ Return(extracted')
            /\ credits' = credits
       ELSE LET enriched_person == GetDefault(resp, "person", JNull)
            IN IF TruthyJ(enriched_person)
               THEN LET ex == _extract_all(enriched_person.v, credits)
                    IN /\ extracted' = extracted
                       /\ credits' = ex.credits
                       /\ IF ex.raised # None
                          THEN Raise(ex.raised, "_extract_all")
                          ELSE Return(EnrichSucceeded(ex.val, url))
               ELSE /\ extracted' = EnrichFailed(extracted, "No enrichment data returned.")
                    /\ Return(extracted')
                    /\ credits' = credits
    /\ UNCHANGED <<exists, fieldnames, rows, fmt, outfile, console, i, results,
                   requests, url, match, person, credits_at_call>>

-----------------------------------------------------------------------------
(* process_csv *)

Report(msg) == console' = Append(console, msg)

\* lines 210-220: the two precondition checks
ProcessCsv ==
    /\ pc = "process_csv"
    /\ IF ~exists
       THEN /\ Report([kind |-> "Input CSV not found"])
            /\ pc' = "done"
            /\ exc' = exc
       ELSE IF fieldnames.t # "list"
       THEN /\ exc' = [type |-> "TypeError", raised_in |-> "process_csv"]
            /\ pc' = "crashed"
            /\ console' = console
       ELSE IF \A k \in 1..Len(fieldnames.v) : fieldnames.v[k] # linkedin_column
       THEN /\ Report([kind |-> "CSV missing column"])
            /\ pc' = "done"
            /\ exc' = exc
       ELSE /\ pc' = "read_row"
            /\ UNCHANGED <<console, exc>>
    /\ UNCHANGED <<exists, fieldnames, rows, fmt, outfile, i, results, credits,
                   requests, url, match, person, extracted, enrich, ret, calls,
                   credits_at_call>>

\* mutant of ReadRow: the loop ends after the first row
ReadRowStopsEarly ==
    /\ pc = "read_row"
    /\ IF i < Len(rows) /\ i < 1
       THEN /\ url' = rows[i + 1]
            /\ pc' = "lookup_person"
       ELSE /\ url' = url
            /\ pc' = "write_output"
    /\ UNCHANGED <<exists, fieldnames, rows, fmt, outfile, console, i, results, credits,
                   requests, match, person, extracted, enrich, ret, calls,
                   credits_at_call, exc>>

\* lines 222-224 and 230: the reader yields the next row, or the loop ends
ReadRow ==
    /\ pc = "read_row"
    /\ IF i < Len(rows)
       THEN /\ url' = rows[i + 1]
            /\ pc' = "lookup_person"
       ELSE /\ url' = url
            /\ pc' = "write_output"
    /\ UNCHANGED <<exists, fieldnames, rows, fmt, outfile, console, i, results, credits,
                   requests, match, person, extracted, enrich, ret, calls,
                   credits_at_call, exc>>

\* mutant of AppendResult: the record is put in front of the list
AppendResultPrepends ==
    /\ pc = "append"
    /\ results' = <<ret>> \o results
    /\ i' = i + 1
    /\ console' = console
    /\ pc' = "read_row"
    /\ url' = None
    /\ match' = Unset
    /\ person' = Unset
    /\ extracted' = Unset
    /\ enrich' = Unset
    /\ ret' = Unset
    /\ credits_at_call' = Unset
    /\ UNCHANGED <<exists, fieldnames, rows, fmt, outfile, credits, requests, calls, exc>>

\* lines 225-228: the returned record is appended; progress every tenth row
AppendResult ==
    /\ pc = "append"
    /\ results' = Append(results, ret)
    /\ i' = i + 1
    /\ IF (i + 1) % ProgressEvery = 0
       THEN Report([kind |-> "Processed rows", n |-> i + 1])
       ELSE console' = console
    /\ pc' = "read_row"
    /\ url' = None
    /\ match' = Unset
    /\ person' = Unset
    /\ extracted' = Unset
    /\ enrich' = Unset
    /\ ret' = Unset
    /\ credits_at_call' = Unset
    /\ UNCHANGED <<exists, fieldnames, rows, fmt, outfile, credits, requests, calls, exc>>

\* csv.DictWriter writes None as the empty string
CsvCell(v) == IF v = None THEN "" ELSE v

CsvRow(rec) == [k \in 1..Len(OUTPUT_FIELDNAMES) |-> CsvCell(rec[OUTPUT_FIELDNAMES[k]])]

CsvFile(recs) ==
    [t |-> "file", fmt |-> "csv",
     content |-> <<OUTPUT_FIELDNAMES>> \o [k \in 1..Len(recs) |-> CsvRow(recs[k])]]

JsonFile(recs) == [t |-> "file", fmt |-> "json", content |-> recs]

\* mutant of Written: an unrecognised format is written as JSON
WrittenAnyFormat(recs, f, old) ==
    IF f = "csv" THEN CsvFile(recs) ELSE JsonFile(recs)

\* what _write_output leaves at output_path
Written(recs, f, old) ==
    IF f = "csv" THEN CsvFile(recs)
    ELSE IF f = "json" THEN JsonFile(recs)
    ELSE old

\* what _write_output prints
WriteMessage(f) ==
    IF f = "csv" THEN [kind |-> "CSV saved"]
    ELSE IF f = "json" THEN [kind |-> "JSON saved"]
    ELSE [kind |-> "Unsupported format"]

\* line 230 and lines 238-252
WriteOutput ==
    /\ pc = "write_output"
    /\ outfile' = Written(results, fmt, outfile)
    /\ Report(WriteMessage(fmt))
    /\ pc' = "summary"
    /\ UNCHANGED <<exists, fieldnames, rows, fmt, i, results, credits, requests, url,
                   match, person, extracted, enrich, ret, calls, credits_at_call, exc>>

\* lines 232-233
PrintSummary ==
    /\ pc = "summary"
    /\ Report([kind |-> "CREDIT USAGE SUMMARY", credits |-> credits])
    /\ pc' = "done"
    /\ UNCHANGED <<exists, fieldnames, rows, fmt, outfile, i, results, credits,
                   requests, url, match, person, extracted, enrich, ret, calls,
                   credits_at_call, exc>>

-----------------------------------------------------------------------------
(* The batch: a fresh client, one process_csv call *)

\* the URL-column cells of a file whose header lacks the column
NoneTables == SeqsUpTo({None}, MaxRows)

Init ==
    /\ exists \in BOOLEAN
    /\ fieldnames \in (IF exists
                       THEN {HeaderNone, HeaderWithColumn, HeaderWithoutColumn}
                       ELSE {HeaderNone})
    /\ rows \in (IF fieldnames = HeaderWithColumn THEN InputTables
                 ELSE IF fieldnames = HeaderWithoutColumn THEN NoneTables
                 ELSE {<<>>})
    /\ fmt \in Formats
    /\ outfile \in {NoFile, OldFile}
    /\ console = <<>>
    /\ pc = "process_csv"
    /\ i = 0
    /\ results = <<>>
    /\ credits = CreditUsage
    /\ requests = <<>>
    /\ url = None
    /\ match = Unset
    /\ person = Unset
    /\ extracted = Unset
    /\ enrich = Unset
    /\ ret = Unset
    /\ calls = <<>>
    /\ credits_at_call = Unset
    /\ exc = Unset

Next ==
    \/ ProcessCsv
    \/ ReadRow
    \/ LookupPerson
    \/ \E resp \in PostResults : MatchReturns(resp)
    \/ \E resp \in PostResults : EnrichReturns(resp)
    \/ AppendResult
    \/ WriteOutput
    \/ PrintSummary

Spec == Init /\ [][Next]_vars

-----------------------------------------------------------------------------
(* The extraction helpers on their own: one call of extract_verified_email  *)
(* or extract_verified_mobile on a person whose candidate list is drawn     *)
(* from all lists up to a bounded length.                                   *)

\* email candidates, among them one without a status and one without an email
EmailCandidates ==
    [email : {"e1", "e2"}, status : {"verified", "unverified"},
     type : {"work", "email", "personal"}]
        \cup {[email |-> "e1", type |-> "work"], [status |-> "verified", type |-> "work"]}

\* phone candidates: sanitized_number and number each absent, empty or set
PhoneNumbers ==
    { <<>>,
      [number |-> ""],
      [number |-> "n1"],
      [sanitized_number |-> "s1"],
      [sanitized_number |-> "s2", number |-> "n1"],
      [sanitized_number |-> "", number |-> "n2"] }

PhoneCandidates ==
    { With(With(nums, "label", l), "status", st) :
        nums \in PhoneNumbers, l \in {"mobile", "work"}, st \in {"verified", "unverified"} }

EmailPersons ==
    {<<>>, [emails |-> JNull]}
        \cup {[emails |-> JList(es)] : es \in SeqsUpTo(EmailCandidates, MaxEmails)}

PhonePersons ==
    {<<>>, [phone_numbers |-> JNull]}
        \cup {[phone_numbers |-> JList(ps)] : ps \in SeqsUpTo(PhoneCandidates, MaxPhones)}

\* one call of a helper: o is its outcome
HelperReturns(o, name) ==
    /\ credits' = o.credits
    /\ IF o.raised # None
       THEN /\ exc' = [type |-> o.raised, raised_in |-> name]
            /\ pc' = "crashed"
            /\ ret' = ret
       ELSE /\ ret' = o.val
            /\ pc' = name \o " returned"
            /\ exc' = exc
    /\ UNCHANGED <<exists, fieldnames, rows, fmt, outfile, console, i, results,
                   requests, url, match, person, extracted, enrich, calls,
                   credits_at_call>>

ExtractVerifiedEmail ==
    /\ pc = "extract_verified_email"
    /\ HelperReturns(extract_verified_email(person.v, credits), "extract_verified_email")

ExtractVerifiedMobile ==
    /\ pc = "extract_verified_mobile"
    /\ HelperReturns(extract_verified_mobile(person.v, credits), "extract_verified_mobile")

InitExtract ==
    /\ \/ pc = "extract_verified_email" /\ person \in {JDict(p) : p \in EmailPersons}
       \/ pc = "extract_verified_mobile" /\ person \in {JDict(p) : p \in PhonePersons}
    /\ exists = FALSE
    /\ fieldnames = HeaderNone
    /\ rows = <<>>
    /\ fmt = "csv"
    /\ outfile = NoFile
    /\ console = <<>>
    /\ i = 0
    /\ results = <<>>
    /\ credits = CreditUsage
    /\ requests = <<>>
    /\ url = None
    /\ match = Unset
    /\ extracted = Unset
    /\ enrich = Unset
    /\ ret = Unset
    /\ calls = <<>>
    /\ credits_at_call = Unset
    /\ exc = Unset

NextExtract ==
    \/ ExtractVerifiedEmail
    \/ ExtractVerifiedMobile

SpecExtract == InitExtract /\ [][NextExtract]_vars

-----------------------------------------------------------------------------
(* Claims *)

\* lookup_person has returned to process_csv; its frame is still in view
Returned == pc = "append"

MatchErrored == match # Unset /\ "error" \in DOMAIN match.v
MatchNoPerson ==
    match # Unset /\ "error" \notin DOMAIN match.v
        /\ ~TruthyJ(GetDefault(match.v, "person", JNull))
MatchGavePerson ==
    match # Unset /\ "error" \notin DOMAIN match.v
        /\ TruthyJ(GetDefault(match.v, "person", JNull))

EnrichErrored == enrich # Unset /\ "error" \in DOMAIN enrich.v
EnrichNoPerson ==
    enrich # Unset /\ "error" \notin DOMAIN enrich.v
        /\ ~TruthyJ(GetDefault(enrich.v, "person", JNull))
EnrichGavePerson ==
    enrich # Unset /\ "error" \notin DOMAIN enrich.v
        /\ TruthyJ(GetDefault(enrich.v, "person", JNull))

EnrichRequestsOfRow(r) ==
    {k \in 1..Len(requests) :
        requests[k].endpoint = "people/enrich" /\ requests[k].row = r}

\* the organization sub-mapping of a person, absent meaning empty
OrgOf(p) == IF "organization" \in DOMAIN p THEN p["organization"].v ELSE <<>>

\* the identity and company fields of rec are those of the vendor person p
DataFieldsFrom(rec, p) ==
    /\ rec["first_name"] = Get(p, "first_name")
    /\ rec["last_name"] = Get(p, "last_name")
    /\ rec["job_title"] = Get(p, "title")
    /\ rec["company_name"] = Get(OrgOf(p), "name")
    /\ rec["company_website"] = Get(OrgOf(p), "website_url")
    /\ rec["industry"] = Get(OrgOf(p), "industry")
    /\ rec["linkedin_url"] = Get(p, "linkedin_url")
    /\ rec["apollo_person_id"] = Get(p, "id")

ThirteenKeys ==
    {"input_linkedin_url", "first_name", "last_name", "job_title", "company_name",
     "company_website", "industry", "verified_email", "verified_mobile_phone",
     "linkedin_url", "apollo_person_id", "lookup_used", "apollo_error"}

\* every field of rec other than input_linkedin_url and apollo_error is null
AllNullBut(rec) ==
    /\ DOMAIN rec = ThirteenKeys
    /\ \A f \in ThirteenKeys \ {"input_linkedin_url", "apollo_error"} : rec[f] = None

\* C1: when process_csv hands results to _write_output, results has one record
\* per input row, the k-th record is what the k-th lookup_person call returned,
\* that call was made on the k-th row's URL cell, and every record has exactly
\* the 13 keys of OUTPUT_FIELDNAMES.
C1_OneRecordPerRow ==
    pc = "write_output" =>
        /\ Len(results) = Len(rows)
        /\ Len(calls) = Len(rows)
        /\ \A k \in 1..Len(rows) :
              /\ calls[k].url = rows[k]
              /\ results[k] = calls[k].ret
              /\ DOMAIN results[k] = ThirteenKeys

C1_Witness ==
    /\ pc = "write_output"
    /\ Len(rows) = 2
    /\ rows[1] = " u1 " /\ rows[2] = ""
    /\ results[1]["lookup_used"] = "enrich"
    /\ results[2]["apollo_error"] = "Empty LinkedIn URL."

\* C2: no exception leaves lookup_person (every row completes with a record
\* and the batch goes on), and a record returned after a failed match or enrich
\* step carries the failure in apollo_error.
C2_RowAlwaysCompletes ==
    /\ exc = Unset \/ exc.raised_in = "process_csv"
    /\ (Returned /\ (MatchErrored \/ MatchNoPerson \/ EnrichErrored \/ EnrichNoPerson))
          => ret["apollo_error"] # None

\* C3: after a match call that returned an error-tagged result or no person,
\* lookup_person returns a record whose fields are all null except
\* input_linkedin_url, which is the input, and apollo_error, which is
\* "MATCH API error: <error>" resp. "No match found.".
C3_MatchFailureRecord ==
    (Returned /\ (MatchErrored \/ MatchNoPerson)) =>
        /\ AllNullBut(ret)
        /\ ret["input_linkedin_url"] = url
        /\ ret["apollo_error"] # None
        /\ ret["apollo_error"] =
              (IF MatchErrored THEN "MATCH API error: " \o match.v["error"]
               ELSE "No match found.")

C3_Witness ==
    /\ Returned
    /\ MatchErrored
    /\ url = " u1 "
    /\ ret["input_linkedin_url"] = " u1 "
    /\ ret["apollo_error"] = "MATCH API error: timeout"

\* C4 as stated: after a match call that gave a person from which a non-null
\* verified mobile number was extracted, lookup_person returns the
\* match-derived record with lookup_used = "match", no enrich request was
\* sent for the row and enrich_credits is what it was when the call began.
C4_NonNullMobileShortCircuits ==
    (Returned /\ MatchGavePerson /\ extracted["verified_mobile_phone"] # None) =>
        /\ ret = extracted
        /\ ret["lookup_used"] = "match"
        /\ DataFieldsFrom(ret, person.v)
        /\ enrich = Unset
        /\ EnrichRequestsOfRow(i + 1) = {}
        /\ credits.enrich_credits = credits_at_call.enrich_credits

\* C4 amended: the same, for a verified mobile number that is non-null and
\* non-empty.
C4_MobileShortCircuits ==
    (Returned /\ MatchGavePerson /\ Truthy(extracted["verified_mobile_phone"])) =>
        /\ ret = extracted
        /\ ret["lookup_used"] = "match"
        /\ DataFieldsFrom(ret, person.v)
        /\ enrich = Unset
        /\ EnrichRequestsOfRow(i + 1) = {}
        /\ credits.enrich_credits = credits_at_call.enrich_credits

C4_Witness ==
    /\ Returned
    /\ MatchGavePerson
    /\ ret["verified_mobile_phone"] = "s1"
    /\ ret["lookup_used"] = "match"
    /\ credits.match_credits = credits_at_call.match_credits + 1
    /\ credits.enrich_credits = credits_at_call.enrich_credits

\* C5: after a match without a verified mobile number and an enrich call that
\* gave a person, lookup_person returns a record extracted from the enrich
\* person, with lookup_used = "enrich", apollo_error null and
\* input_linkedin_url the input URL.
C5_EnrichSuccessRecord ==
    (Returned /\ EnrichGavePerson) =>
        /\ MatchGavePerson
        /\ ~Truthy(extracted["verified_mobile_phone"])
        /\ DataFieldsFrom(ret, enrich.v["person"].v)
        /\ ret["verified_email"] = extract_verified_email(enrich.v["person"].v, credits).val
        /\ ret["verified_mobile_phone"] =
              extract_verified_mobile(enrich.v["person"].v, credits).val
        /\ ret["lookup_used"] = "enrich"
        /\ ret["apollo_error"] = None
        /\ ret["input_linkedin_url"] = url

C5_Witness ==
    /\ Returned
    /\ EnrichGavePerson
    /\ url = " u1 "
    /\ person.v["first_name"] = "Bob"
    /\ ret["first_name"] = "Ann"
    /\ ret["linkedin_url"] = "v1"
    /\ ret["input_linkedin_url"] = " u1 "
    /\ ret["lookup_used"] = "enrich"

\* C6: after a match without a verified mobile number and an enrich call that
\* failed (error-tagged result or no person), lookup_person returns the
\* match-derived record: its data fields and verified_email are those of the
\* match person, lookup_used = "enrich" and apollo_error is
\* "Enrich error: <error>" resp. "No enrichment data returned.".
C6_EnrichFailureKeepsMatch ==
    (Returned /\ (EnrichErrored \/ EnrichNoPerson)) =>
        /\ MatchGavePerson
        /\ DataFieldsFrom(ret, person.v)
        /\ ret["verified_email"] = extract_verified_email(person.v, credits).val
        /\ ret["lookup_used"] = "enrich"
        /\ ret["apollo_error"] # None
        /\ ret["apollo_error"] =
              (IF EnrichErrored THEN "Enrich error: " \o enrich.v["error"]
               ELSE "No enrichment data returned.")

C6_Witness ==
    /\ Returned
    /\ EnrichErrored
    /\ ret["first_name"] = "Ann"
    /\ ret["company_name"] = "Acme"
    /\ ret["verified_email"] = "e2"
    /\ ret["lookup_used"] = "enrich"
    /\ ret["apollo_error"] = "Enrich error: timeout"

CandidatesOf(key) == IF key \in DOMAIN person.v THEN person.v[key].v ELSE <<>>

EmailQualifies(e) ==
    Get(e, "status") = "verified" /\ Get(e, "type") \in {"work", "email"}

\* C8: extract_verified_email returns the email of the first candidate, in
\* list order, whose status is "verified" and whose type is "work" or "email",
\* and null when no candidate qualifies or the list is absent.
C8_FirstVerifiedEmail ==
    pc = "extract_verified_email returned" =>
        LET es == CandidatesOf("emails")
            hits == {k \in 1..Len(es) : EmailQualifies(es[k])}
        IN IF hits = {}
           THEN ret = None
           ELSE \E k \in hits :
                  /\ \A j \in hits : k <= j
                  /\ ret = Get(es[k], "email")

C8_Witness ==
    /\ pc = "extract_verified_email returned"
    /\ Len(CandidatesOf("emails")) = 3
    /\ CandidatesOf("emails")[1] = [email |-> "e1", status |-> "unverified", type |-> "work"]
    /\ CandidatesOf("emails")[2] = [email |-> "e1", status |-> "verified", type |-> "personal"]
    /\ CandidatesOf("emails")[3] = [email |-> "e2", status |-> "verified", type |-> "work"]
    /\ ret = "e2"

PhoneQualifies(p) == Get(p, "label") = "mobile" /\ Get(p, "status") = "verified"

\* C9 as stated: extract_verified_mobile selects the first candidate whose
\* label is "mobile" and whose status is "verified" and returns its
\* sanitized_number when it has both sanitized_number and number, the raw
\* number when sanitized_number is missing, and null when no candidate
\* qualifies.
C9_SanitizedWhenBothPresent ==
    pc = "extract_verified_mobile returned" =>
        LET ps == CandidatesOf("phone_numbers")
            hits == {k \in 1..Len(ps) : PhoneQualifies(ps[k])}
        IN IF hits = {}
           THEN ret = None
           ELSE \E k \in hits :
                  /\ \A j \in hits : k <= j
                  /\ ({"sanitized_number", "number"} \subseteq DOMAIN ps[k]
                        => ret = ps[k]["sanitized_number"])
                  /\ ("sanitized_number" \notin DOMAIN ps[k] => ret = Get(ps[k], "number"))

\* C9 amended: extract_verified_mobile selects the first candidate whose label
\* is "mobile" and whose status is "verified" and returns its sanitized_number
\* when that is present and non-empty, otherwise its raw number (null when
\* that is absent too); it returns null when no candidate qualifies.
C9_FirstVerifiedMobile ==
    pc = "extract_verified_mobile returned" =>
        LET ps == CandidatesOf("phone_numbers")
            hits == {k \in 1..Len(ps) : PhoneQualifies(ps[k])}
        IN IF hits = {}
           THEN ret = None
           ELSE \E k \in hits :
                  /\ \A j \in hits : k <= j
                  /\ LET san == Get(ps[k], "sanitized_number")
                     IN IF san # None /\ san # ""
                        THEN ret = san
                        ELSE ret = Get(ps[k], "number")

C9_Witness ==
    /\ pc = "extract_verified_mobile returned"
    /\ Len(CandidatesOf("phone_numbers")) = 2
    /\ ~PhoneQualifies(CandidatesOf("phone_numbers")[1])
    /\ "number" \in DOMAIN CandidatesOf("phone_numbers")[1]
    /\ PhoneQualifies(CandidatesOf("phone_numbers")[2])
    /\ {"sanitized_number", "number"} \subseteq DOMAIN CandidatesOf("phone_numbers")[2]
    /\ ret = "s2"

\* C10: with an output format other than "csv" or "json" the file at
\* output_path is never created or overwritten, the write step and the summary
\* step raise nothing, and the write step only reports the error.
C10_UnsupportedFormatWritesNothing ==
    [][fmt \notin {"csv", "json"} =>
          /\ outfile' = outfile
          /\ pc \in {"write_output", "summary"} => (pc' # "crashed" /\ exc' = Unset)
          /\ pc = "write_output" =>
                /\ pc' = "summary"
                /\ console' = Append(console, [kind |-> "Unsupported format"])]_vars

C10_Witness ==
    /\ pc = "done"
    /\ fmt = "xml"
    /\ Len(results) = 2
    /\ outfile = NoFile
    /\ exc = Unset
    /\ Len(console) = 2
    /\ console[1] = [kind |-> "Unsupported format"]

\* the header does not offer the URL column (or there is no header at all)
ColumnMissing ==
    \/ fieldnames.t # "list"
    \/ \A k \in 1..Len(fieldnames.v) : fieldnames.v[k] # linkedin_column

PreconditionFails == ~exists \/ ColumnMissing

\* C11: when the input file does not exist or its header lacks the URL column
\* (an input file without any header included), process_csv reports one
\* diagnostic and returns: no lookup_person call, no request, no credit
\* counted, no output written.
C11_PreconditionFailureReported ==
    (PreconditionFails /\ pc # "process_csv") =>
        /\ pc = "done"
        /\ exc = Unset
        /\ Len(console) = 1
        /\ console[1].kind \in {"Input CSV not found", "CSV missing column"}
        /\ calls = <<>>
        /\ results = <<>>
        /\ requests = <<>>
        /\ credits = CreditUsage
        /\ outfile \in {NoFile, OldFile}

\* a lookup_person call is under way or has just ended, its frame in view
InLookup ==
    \/ pc \in {"match_post", "enrich_post", "append"}
    \/ pc = "crashed" /\ exc.raised_in # "process_csv"

RequestsOfRow(endpoint, r) ==
    {k \in 1..Len(requests) : requests[k].endpoint = endpoint /\ requests[k].row = r}

\* the request order of every row; noMobile says what the match step found
RequestOrder(noMobile) ==
    /\ \A k \in 1..Len(requests) :
          /\ requests[k].row <= i + 1
          /\ k > 1 => requests[k - 1].row <= requests[k].row
    /\ \A r \in 1..Len(rows) :
          LET M == RequestsOfRow("people/match", r)
              E == RequestsOfRow("people/enrich", r)
          IN /\ Cardinality(M) <= 1
             /\ Cardinality(E) <= 1
             /\ \A e \in E : M # {} /\ \A m \in M : m < e
    /\ RequestsOfRow("people/enrich", i + 1) # {} =>
          (InLookup /\ MatchGavePerson /\ noMobile)
    /\ (InLookup /\ (MatchErrored \/ MatchNoPerson)) =>
          RequestsOfRow("people/enrich", i + 1) = {}
    /\ (Returned /\ (EnrichErrored \/ EnrichNoPerson)) =>
          \A k \in 1..Len(requests) :
              requests[k].row = i + 1 =>
                  k <= CHOOSE e \in RequestsOfRow("people/enrich", i + 1) : TRUE

\* C12 as stated: per row at most one match request and at most one enrich
\* request, the enrich request only after the match request of the row gave a
\* person whose extracted verified mobile number is null, and no request after
\* a failed request of the row.
C12_EnrichOnlyAfterNullMobile ==
    RequestOrder(extracted["verified_mobile_phone"] = None)

\* C12 amended: the same, the enrich request coming only after the match
\* request of the row gave a person whose extracted verified mobile number is
\* null or empty.
C12_RequestOrder ==
    RequestOrder(~Truthy(extracted["verified_mobile_phone"]))

C12_Witness ==
    /\ Returned
    /\ i = 1
    /\ EnrichErrored
    /\ Len(requests) = 3
    /\ requests[1].row = 1 /\ requests[1].endpoint = "people/match"
    /\ requests[2].row = 2 /\ requests[2].endpoint = "people/match"
    /\ requests[3].row = 2 /\ requests[3].endpoint = "people/enrich"
    /\ extracted["verified_mobile_phone"] = None

RequestsTo(endpoint) == {k \in 1..Len(requests) : requests[k].endpoint = endpoint}

\* the rows for which lookup_person has been called
RowsStarted ==
    i + (IF pc = "lookup_person" \/ InLookup THEN 1 ELSE 0)

\* C13: match_credits is the number of match requests sent and enrich_credits
\* the number of enrich requests sent, so enrich_credits <= match_credits <=
\* the number of rows processed; and no counter ever decreases.
C13_CreditsCountRequests ==
    /\ [](/\ credits.match_credits = Cardinality(RequestsTo("people/match"))
          /\ credits.enrich_credits = Cardinality(RequestsTo("people/enrich"))
          /\ credits.enrich_credits <= credits.match_credits
          /\ credits.match_credits <= RowsStarted)
    /\ [][/\ credits'.match_credits >= credits.match_credits
          /\ credits'.enrich_credits >= credits.enrich_credits
          /\ credits'.email_credits >= credits.email_credits
          /\ credits'.mobile_credits >= credits.mobile_credits]_vars

C13_Witness ==
    /\ pc = "done"
    /\ Len(rows) = 2
    /\ credits.match_credits = 2
    /\ credits.enrich_credits = 1
    /\ Len(requests) = 3
    /\ EnrichRequestsOfRow(1) # {}

\* C14 as stated: in every record lookup_person returns, lookup_used is null,
\* "match" or "enrich"; it is null exactly when the match step gave no person,
\* and then apollo_error is non-null; "match" implies a non-null
\* verified_mobile_phone and a null apollo_error; "enrich" with a non-null
\* apollo_error implies a null verified_mobile_phone.
C14_EnrichErrorMeansNullMobile ==
    Returned =>
        /\ ret["lookup_used"] \in {None, "match", "enrich"}
        /\ ret["lookup_used"] = None <=> ~MatchGavePerson
        /\ ret["lookup_used"] = None => ret["apollo_error"] # None
        /\ ret["lookup_used"] = "match" =>
              (ret["verified_mobile_phone"] # None /\ ret["apollo_error"] = None)
        /\ (ret["lookup_used"] = "enrich" /\ ret["apollo_error"] # None) =>
              ret["verified_mobile_phone"] = None

\* C14 amended: the same, "enrich" with a non-null apollo_error implying a
\* verified_mobile_phone that is null or the empty string.
C14_OutcomeInvariant ==
    Returned =>
        /\ ret["lookup_used"] \in {None, "match", "enrich"}
        /\ ret["lookup_used"] = None <=> ~MatchGavePerson
        /\ ret["lookup_used"] = None => ret["apollo_error"] # None
        /\ ret["lookup_used"] = "match" =>
              (ret["verified_mobile_phone"] # None /\ ret["apollo_error"] = None)
        /\ (ret["lookup_used"] = "enrich" /\ ret["apollo_error"] # None) =>
              ret["verified_mobile_phone"] \in {None, ""}

C14_Witness ==
    /\ Returned
    /\ ret["lookup_used"] = "enrich"
    /\ ret["apollo_error"] = "Enrich error: timeout"
    /\ ret["verified_mobile_phone"] = ""
    /\ ret["first_name"] = "Bob"

\* the cell holds a URL: it is neither null nor empty nor blank
HoldsUrl(cell) == cell # None /\ strip(cell) # ""

\* C15, for the rows whose URL cell holds a URL (the empty input is C7's
\* subject, the blank one C17's): whatever the outcome of the lookup, the
\* input_linkedin_url of the returned record is the URL cell of the row, not
\* the linkedin_url the vendor echoes; and so it is in the list handed to
\* _write_output.
C15_InputUrlEchoed ==
    /\ (Returned /\ HoldsUrl(url)) => ret["input_linkedin_url"] = url
    /\ pc = "write_output" =>
          \A k \in 1..Len(results) :
              HoldsUrl(rows[k]) => results[k]["input_linkedin_url"] = rows[k]

\* the records of results whose field is non-null
Filled(field) == {k \in 1..Len(results) : results[k][field] # None}

\* 1 when an extraction from the tagged person j selects a candidate, else 0
Selects(j, key, Qualifies(_)) ==
    IF j.t = "dict" /\ key \in DOMAIN j.v /\ j.v[key].t = "list"
          /\ \E k \in 1..Len(j.v[key].v) : Qualifies(j.v[key].v[k])
    THEN 1 ELSE 0

\* the person payload of the enrich response, when there is one
EnrichedPerson == IF EnrichGavePerson THEN enrich.v["person"] ELSE JNull

\* C16 as stated: after a batch email_credits is the number of output records
\* with a non-null verified_email and mobile_credits the number with a
\* non-null verified_mobile_phone; within a row each counter rises at most
\* once, and only when the field of the returned record is non-null.
C16_CreditsEqualFilledFields ==
    /\ pc \in {"write_output", "summary", "done"} =>
          /\ credits.email_credits = Cardinality(Filled("verified_email"))
          /\ credits.mobile_credits = Cardinality(Filled("verified_mobile_phone"))
    /\ Returned =>
          /\ credits.email_credits - credits_at_call.email_credits =
                (IF ret["verified_email"] # None THEN 1 ELSE 0)
          /\ credits.mobile_credits - credits_at_call.mobile_credits =
                (IF ret["verified_mobile_phone"] # None THEN 1 ELSE 0)

\* C16 amended: each counter is incremented once for every extraction that
\* selects a candidate: within a row, once for the match person and once more
\* for the enrich person when the enrich call returns one, so at most twice
\* per row; after a batch email_credits is at least the number of output
\* records with a non-null verified_email and mobile_credits at least the
\* number with a non-null verified_mobile_phone.
C16_CreditsCountSelections ==
    /\ pc \in {"write_output", "summary", "done"} =>
          /\ credits.email_credits >= Cardinality(Filled("verified_email"))
          /\ credits.mobile_credits >= Cardinality(Filled("verified_mobile_phone"))
    /\ Returned =>
          /\ credits.email_credits - credits_at_call.email_credits =
                Selects(person, "emails", EmailQualifies)
                    + Selects(EnrichedPerson, "emails", EmailQualifies)
          /\ credits.mobile_credits - credits_at_call.mobile_credits =
                Selects(person, "phone_numbers", PhoneQualifies)
                    + Selects(EnrichedPerson, "phone_numbers", PhoneQualifies)
          /\ ret["verified_email"] # None =>
                credits.email_credits > credits_at_call.email_credits
          /\ ret["verified_mobile_phone"] # None =>
                credits.mobile_credits > credits_at_call.mobile_credits

C16_Witness ==
    /\ Returned
    /\ EnrichGavePerson
    /\ ret["verified_email"] = "e2"
    /\ credits.email_credits = credits_at_call.email_credits + 2

\* C17: no match request carries the empty string; an input that is null,
\* empty or blank is answered with "Empty LinkedIn URL." without a match
\* request and without a match credit; the match request of a row carries the
\* trimmed input.
C17_NoEmptyMatchRequest ==
    /\ \A k \in RequestsTo("people/match") :
          requests[k].payload.person.linkedin_url # ""
    /\ (Returned /\ (url = None \/ strip(url) = "")) =>
          /\ ret["apollo_error"] = "Empty LinkedIn URL."
          /\ RequestsOfRow("people/match", i + 1) = {}
          /\ credits.match_credits = credits_at_call.match_credits
    /\ InLookup =>
          \A k \in RequestsOfRow("people/match", i + 1) :
              requests[k].payload.person.linkedin_url = strip(url)

WriteReports ==
    {k \in 1..Len(console) :
        console[k].kind \in {"CSV saved", "JSON saved", "Unsupported format"}}

SummaryReports == {k \in 1..Len(console) : console[k].kind = "CREDIT USAGE SUMMARY"}

\* C18: in a batch that passes the preconditions nothing is written or
\* summarised while rows remain; the write step begins when every row has its
\* record, no request is sent from then on, the file is written at most once,
\* and the summary is reported once, after the write step's report, whatever
\* the format.
C18_StepsInOrder ==
    /\ [](/\ pc \in {"process_csv", "read_row", "lookup_person", "match_post",
                     "enrich_post", "append", "crashed", "write_output"} =>
                /\ WriteReports = {}
                /\ SummaryReports = {}
                /\ outfile \in {NoFile, OldFile}
          /\ pc \in {"write_output", "summary"} =>
                (i = Len(rows) /\ Len(results) = Len(rows))
          /\ pc = "summary" => (Cardinality(WriteReports) = 1 /\ SummaryReports = {})
          /\ (pc = "done" /\ ~PreconditionFails) =>
                /\ Cardinality(WriteReports) = 1
                /\ Cardinality(SummaryReports) = 1
                /\ \A w \in WriteReports : \A c \in SummaryReports : w < c
                /\ i = Len(rows))
    /\ [][/\ outfile' # outfile => (pc = "write_output" /\ i = Len(rows))
          /\ requests' # requests => (pc \in {"lookup_person", "match_post"} /\ i < Len(rows))
          /\ pc \in {"write_output", "summary", "done"} =>
                (requests' = requests /\ results' = results /\ credits' = credits)
          /\ pc \in {"summary", "done"} => outfile' = outfile]_vars

C18_Witness ==
    /\ pc = "done"
    /\ fmt = "csv"
    /\ Len(rows) = 2
    /\ Len(requests) = 3
    /\ outfile = CsvFile(results)
    /\ console = << [kind |-> "CSV saved"],
                    [kind |-> "CREDIT USAGE SUMMARY", credits |-> credits] >>

====
